---------------------------- MODULE Spec2Model ----------------------------
(***************************************************************************)
(* pi-gen-action: the configuration model (src/pi-gen-config.ts) and the   *)
(* build invoker (class PiGen, src/pi-gen.ts).                             *)
(*                                                                         *)
(* Strings are sequences of one-character strings, so that splitting,      *)
(* joining, case conversion and regular-expression matching are computed   *)
(* character by character, as the code computes them.                      *)
(***************************************************************************)
EXTENDS Naturals, Integers, Sequences, FiniteSets, TLC

VARIABLES
  config,     \* the PiGenConfig object: field name -> value (absent fields are not in its domain)
  configIn,   \* the config as it was passed to the last writeToFile call
  overrides,  \* how many inputs the caller has set on top of DEFAULT_CONFIG
  fsys,       \* the file system: absolute path -> node
  cfgFile,    \* the config file: [written, content]
  wpc,        \* writeToFile: "idle" | "resolved" | "rejected"
  vpc,        \* validateConfig: "idle" | "locale" | "timezone" | "stages" | "passed" | "failed"
  vIdx,       \* validateConfig: index of the next stage-list token to check
  vError,     \* validateConfig: the error thrown, "" if none
  ioLog,      \* the subprocess calls, file queries, writes and removals made so far, in order
  piGen,      \* the PiGen object: "none" | "constructed" | "threw"
  bpc,        \* PiGen.build: "idle" | "prepared" | "running" | "returned" | "threw"
  verbose,    \* the argument of PiGen.build
  pendingRm,  \* io.rmRF calls started and not yet completed
  warnings,   \* paths of the custom stages core.warning was called for
  dockerOpts, \* PIGEN_DOCKER_OPTS as computed by getStagesAsDockerMounts
  lastIndex,  \* piGenBuildLogPattern.lastIndex
  delivered,  \* the lines the subprocess has written: [stream, line]
  sink,       \* what reached core.info / core.error: [channel, line]
  exitCode,   \* exit code of build-docker.sh, -1 while it has not exited
  result      \* what PiGen.build returned or threw

vars == <<config, configIn, overrides, fsys, cfgFile, wpc, vpc, vIdx, vError, ioLog,
          piGen, bpc, verbose, pendingRm, warnings, dockerOpts, lastIndex,
          delivered, sink, exitCode, result>>

---------------------------------------------------------------------------
(* Bounds of the model *)

MaxOverrides == 2   \* inputs the caller sets on top of DEFAULT_CONFIG
MaxPwLen == 65      \* longest Wi-Fi password tried
MaxLines == 2       \* output lines the build subprocess writes
MaxDefects == 1     \* entries of the pi-gen directory that are missing or of the wrong kind

---------------------------------------------------------------------------
(* Characters and strings *)

Lowers == <<"a", "b", "c", "d", "e", "f", "g", "h", "i", "j", "k", "l", "m", "n", "o", "p", "q", "r", "s", "t", "u", "v", "w", "x", "y", "z">>
Uppers == <<"A", "B", "C", "D", "E", "F", "G", "H", "I", "J", "K", "L", "M", "N", "O", "P", "Q", "R", "S", "T", "U", "V", "W", "X", "Y", "Z">>
Digits == {"0", "1", "2", "3", "4", "5", "6", "7", "8", "9"}
\* \s of a JavaScript regular expression, as far as the inputs here go
Whitespace == {" ", "\t", "\n", "\r"}
\* what . does not match and what ^ with the m flag matches after
LineTerminators == {"\n", "\r"}

IsUpper(c) == \E i \in 1..Len(Uppers) : Uppers[i] = c
IsLower(c) == \E i \in 1..Len(Lowers) : Lowers[i] = c

\* String.prototype.toUpperCase, one character
toUpperCaseChar(c) ==
  IF IsLower(c) THEN Uppers[CHOOSE i \in 1..Len(Lowers) : Lowers[i] = c] ELSE c

\* String.prototype.toLowerCase, one character
toLowerCaseChar(c) ==
  IF IsUpper(c) THEN Lowers[CHOOSE i \in 1..Len(Uppers) : Uppers[i] = c] ELSE c

toUpperCase(s) == [i \in 1..Len(s) |-> toUpperCaseChar(s[i])]
toLowerCase(s) == [i \in 1..Len(s) |-> toLowerCaseChar(s[i])]

\* Array.prototype.join
RECURSIVE join(_, _)
join(parts, sep) ==
  IF Len(parts) = 0 THEN << >>
  ELSE IF Len(parts) = 1 THEN parts[1]
  ELSE parts[1] \o sep \o join(Tail(parts), sep)

\* String.prototype.split(' ') with a one-character separator: every separator
\* ends a token, so two separators in a row give an empty token
split(s, sep) ==
  LET at == {i \in 1..Len(s) : s[i] = sep}
      n == Cardinality(at)
      \* the position of the k-th separator; 0 before the first, Len(s) + 1 after the last
      pos(k) == IF k = 0 THEN 0
                ELSE IF k > n THEN Len(s) + 1
                ELSE CHOOSE i \in at : Cardinality({j \in at : j <= i}) = k
  IN [k \in 1..(n + 1) |-> SubSeq(s, pos(k - 1) + 1, pos(k) - 1)]

\* String.prototype.split(/\s+/): a whole run of whitespace is one separator
RECURSIVE skipWhitespace(_)
skipWhitespace(s) ==
  IF Len(s) > 0 /\ Head(s) \in Whitespace THEN skipWhitespace(Tail(s)) ELSE s

RECURSIVE splitWsAcc(_, _, _)
splitWsAcc(s, cur, acc) ==
  IF Len(s) = 0 THEN Append(acc, cur)
  ELSE IF Head(s) \in Whitespace
       THEN splitWsAcc(skipWhitespace(s), << >>, Append(acc, cur))
  ELSE splitWsAcc(Tail(s), Append(cur, Head(s)), acc)

splitWhitespace(s) == splitWsAcc(s, << >>, << >>)

Range(seq) == {seq[i] : i \in 1..Len(seq)}

\* a string of n characters
Repeat(c, n) == [i \in 1..n |-> c]

---------------------------------------------------------------------------
(* The configuration *)

\* the fields of interface PiGenConfig, in declaration order
FieldOrder ==
  <<"imgName", "release", "deployCompression", "compressionLevel", "localeDefault",
    "targetHostname", "keyboardKeymap", "keyboardLayout", "timezoneDefault",
    "firstUserName", "firstUserPass", "wpaEssid", "wpaPassword", "wpaCountry",
    "enableSsh", "pubkeySshFirstUser", "pubkeyOnlySsh", "stageList", "useQcow2">>

\* the property names as strings of characters
FieldLabel ==
  [imgName |-> <<"i", "m", "g", "N", "a", "m", "e">>, release |-> <<"r", "e", "l", "e", "a", "s", "e">>,
   deployCompression |-> <<"d", "e", "p", "l", "o", "y", "C", "o", "m", "p", "r", "e", "s", "s", "i", "o", "n">>, compressionLevel |-> <<"c", "o", "m", "p", "r", "e", "s", "s", "i", "o", "n", "L", "e", "v", "e", "l">>,
   localeDefault |-> <<"l", "o", "c", "a", "l", "e", "D", "e", "f", "a", "u", "l", "t">>, targetHostname |-> <<"t", "a", "r", "g", "e", "t", "H", "o", "s", "t", "n", "a", "m", "e">>,
   keyboardKeymap |-> <<"k", "e", "y", "b", "o", "a", "r", "d", "K", "e", "y", "m", "a", "p">>, keyboardLayout |-> <<"k", "e", "y", "b", "o", "a", "r", "d", "L", "a", "y", "o", "u", "t">>,
   timezoneDefault |-> <<"t", "i", "m", "e", "z", "o", "n", "e", "D", "e", "f", "a", "u", "l", "t">>, firstUserName |-> <<"f", "i", "r", "s", "t", "U", "s", "e", "r", "N", "a", "m", "e">>,
   firstUserPass |-> <<"f", "i", "r", "s", "t", "U", "s", "e", "r", "P", "a", "s", "s">>, wpaEssid |-> <<"w", "p", "a", "E", "s", "s", "i", "d">>,
   wpaPassword |-> <<"w", "p", "a", "P", "a", "s", "s", "w", "o", "r", "d">>, wpaCountry |-> <<"w", "p", "a", "C", "o", "u", "n", "t", "r", "y">>,
   enableSsh |-> <<"e", "n", "a", "b", "l", "e", "S", "s", "h">>, pubkeySshFirstUser |-> <<"p", "u", "b", "k", "e", "y", "S", "s", "h", "F", "i", "r", "s", "t", "U", "s", "e", "r">>,
   pubkeyOnlySsh |-> <<"p", "u", "b", "k", "e", "y", "O", "n", "l", "y", "S", "s", "h">>, stageList |-> <<"s", "t", "a", "g", "e", "L", "i", "s", "t">>,
   useQcow2 |-> <<"u", "s", "e", "Q", "c", "o", "w", "2">>]

DEFAULT_CONFIG ==
  [imgName |-> <<"t", "e", "s", "t">>, release |-> <<"b", "u", "l", "l", "s", "e", "y", "e">>, deployCompression |-> <<"z", "i", "p">>,
   compressionLevel |-> <<"6">>, localeDefault |-> <<"e", "n", "_", "G", "B", ".", "U", "T", "F", "-", "8">>,
   targetHostname |-> <<"r", "a", "s", "p", "b", "e", "r", "r", "y", "p", "i">>, keyboardKeymap |-> <<"g", "b">>,
   keyboardLayout |-> <<"E", "n", "g", "l", "i", "s", "h", " ", "(", "U", "K", ")">>, timezoneDefault |-> <<"E", "u", "r", "o", "p", "e", "/", "L", "o", "n", "d", "o", "n">>,
   firstUserName |-> <<"p", "i">>, enableSsh |-> <<"0">>, pubkeyOnlySsh |-> <<"0">>,
   stageList |-> <<"s", "t", "a", "g", "e", "*">>, useQcow2 |-> <<"1">>]

\* config[prop]: undefined (here the empty string, which is falsy like it) when absent
Prop(c, f) == IF f \in DOMAIN c THEN c[f] ELSE << >>

\* the truthiness of a string value: only the empty string (and undefined) is falsy
Truthy(v) == v # << >>

\* enum PiGenStages: the known stage identifiers
PiGenStages ==
  {<<"s", "t", "a", "g", "e", "0">>, <<"s", "t", "a", "g", "e", "1">>, <<"s", "t", "a", "g", "e", "2">>, <<"s", "t", "a", "g", "e", "3">>, <<"s", "t", "a", "g", "e", "4">>, <<"s", "t", "a", "g", "e", "5">>}


---------------------------------------------------------------------------
(* The file system *)

Cwd == <<"/", "w">>                   \* process.cwd()
PiGenDirectory == <<"p", "g">>        \* the piGenDirectory argument, relative to Cwd
PgAbs == <<"/", "w", "/", "p", "g">>
ConfigFile == <<"/", "w", "/", "p", "g", "/", "c", "o", "n", "f", "i", "g">>  \* `${fs.realpathSync(piGenDirectory)}/config`
ExportMarker == <<"E", "X", "P", "O", "R", "T", "_", "I", "M", "A", "G", "E">>
NoPath == << >>                \* ENOENT: no path is empty

Slash == <<"/">>
Under(dir, name) == dir \o Slash \o name

RequiredFiles == {<<"b", "u", "i", "l", "d", "-", "d", "o", "c", "k", "e", "r", ".", "s", "h">>, <<"D", "o", "c", "k", "e", "r", "f", "i", "l", "e">>}

Dir == [kind |-> "dir", target |-> NoPath]
File == [kind |-> "file", target |-> NoPath]
Link(t) == [kind |-> "link", target |-> t]

\* A file tree: the pi-gen checkout with `defects` (entry name -> "absent" or
\* "wrongkind"), the export markers of `markers`, a custom stage directory, a
\* regular file and a symbolic link to the custom stage
Tree(top, defects, markers) ==
  LET entryKind(n) ==
        IF n \in DOMAIN defects
        THEN IF defects[n] = "absent" THEN "absent"
             ELSE IF n \in RequiredFiles THEN "dir" ELSE "file"
        ELSE IF n \in RequiredFiles THEN "file" ELSE "dir"
      entries == IF top = "dir"
                 THEN {n \in RequiredFiles \cup PiGenStages : entryKind(n) # "absent"}
                 ELSE {}
      marked == {d \in markers :
                   \/ d = <<"/", "w", "/", "c", "u", "s", "t", "o", "m">>
                   \/ \E n \in entries : d = Under(PgAbs, n) /\ entryKind(n) = "dir"}
      paths == {Cwd, <<"/", "w", "/", "c", "u", "s", "t", "o", "m">>, <<"/", "w", "/", "a", "f", "i", "l", "e">>, <<"/", "w", "/", "l", "n">>, <<"/", "w", "/", "s", "t", "a", "g", "e", "1">>}
                 \cup (IF top = "absent" THEN {} ELSE {PgAbs})
                 \cup {Under(PgAbs, n) : n \in entries}
                 \cup {Under(d, ExportMarker) : d \in marked}
      node(p) ==
        IF p = <<"/", "w", "/", "l", "n">> THEN Link(<<"/", "w", "/", "c", "u", "s", "t", "o", "m">>)
        ELSE IF p = <<"/", "w", "/", "a", "f", "i", "l", "e">> THEN File
        ELSE IF p = PgAbs THEN (IF top = "file" THEN File ELSE Dir)
        ELSE IF \E n \in entries : p = Under(PgAbs, n)
             THEN LET n == CHOOSE m \in entries : p = Under(PgAbs, m)
                  IN IF entryKind(n) = "file" THEN File ELSE Dir
        ELSE IF \E d \in marked : p = Under(d, ExportMarker) THEN File
        ELSE Dir
  IN [p \in paths |-> node(p)]

NoDefects == [n \in {} |-> "absent"]
AllMarkers == {<<"/", "w", "/", "p", "g", "/", "s", "t", "a", "g", "e", "0">>, <<"/", "w", "/", "p", "g", "/", "s", "t", "a", "g", "e", "1">>, <<"/", "w", "/", "c", "u", "s", "t", "o", "m">>}
ValidTree == Tree("dir", NoDefects, AllMarkers)

\* path.resolve(p): an absolute path stays, a relative one is taken from Cwd
resolve(p) ==
  IF p = << >> THEN Cwd
  ELSE IF Head(p) = "/" THEN p
  ELSE Under(Cwd, p)

\* follows symbolic links; NoPath when the path does not exist
RECURSIVE follow(_, _, _)
follow(fs, a, fuel) ==
  IF a \notin DOMAIN fs \/ fuel = 0 THEN NoPath
  ELSE IF fs[a].kind = "link" THEN follow(fs, fs[a].target, fuel - 1)
  ELSE a

\* fs.realpath of fs/promises (the native realpath): ENOENT for the empty path
realpath(fs, p) == IF p = << >> THEN NoPath ELSE follow(fs, resolve(p), 3)

\* fs.realpathSync: resolves the path first, so the empty path is Cwd
realpathSync(fs, p) == follow(fs, resolve(p), 3)

\* fs.stat / fs.statSync: the kind of the node the path leads to, "enoent" if none
stat(fs, p) ==
  LET a == realpath(fs, p) IN IF a = NoPath THEN "enoent" ELSE fs[a].kind

\* fs.existsSync
existsSync(fs, p) == realpathSync(fs, p) # NoPath

\* index of the last "/" of p, 0 if there is none
lastSlash(p) ==
  LET at == {i \in 1..Len(p) : p[i] = "/"}
  IN IF at = {} THEN 0 ELSE CHOOSE i \in at : \A j \in at : j <= i

\* path.basename: the part after the last "/", trailing slashes dropped
RECURSIVE basename(_)
basename(p) ==
  IF Len(p) > 1 /\ p[Len(p)] = "/" THEN basename(SubSeq(p, 1, Len(p) - 1))
  ELSE SubSeq(p, lastSlash(p) + 1, Len(p))

\* the directory a path lies in
dirname(p) == SubSeq(p, 1, lastSlash(p) - 1)

\* fs.readdirSync(dir, {withFileTypes: true}): the Dirents, [name, kind]; a
\* Dirent does not follow a symbolic link
readdirSync(fs, dir) ==
  LET d == realpathSync(fs, dir)
  IN {[name |-> basename(p), kind |-> fs[p].kind] :
        p \in {q \in DOMAIN fs : lastSlash(q) > 1 /\ dirname(q) = d}}

Event(op, arg) == [op |-> op, arg |-> arg]

---------------------------------------------------------------------------
(* pi-gen-config.ts *)

\* label.replace(/[A-Z]/g, letter => `_${letter}`)
RECURSIVE underscoreUppers(_)
underscoreUppers(label) ==
  IF Len(label) = 0 THEN << >>
  ELSE (IF IsUpper(Head(label)) THEN <<"_", Head(label)>> ELSE <<Head(label)>>)
       \o underscoreUppers(Tail(label))

\* a conversion that forgets the underscores
camelCaseUppercasedOnly(label) == toUpperCase(label)

camelCaseToSnakeCase(label) == toUpperCase(underscoreUppers(label))

\* Object.getOwnPropertyNames(config)
getOwnPropertyNames(c) == SelectSeq(FieldOrder, LAMBDA f : f \in DOMAIN c)

\* .filter(prop => config[prop])
writtenProps(c) == SelectSeq(getOwnPropertyNames(c), LAMBDA f : Truthy(c[f]))

\* `${camelCaseToSnakeCase(prop)}="${config[prop]}"`
configLine(c, f) == camelCaseToSnakeCase(FieldLabel[f]) \o <<"=", "\"">> \o c[f] \o <<"\"">>

\* the text writeToFile hands to fs.writeFile
configContent(c) ==
  LET props == writtenProps(c)
  IN join([i \in 1..Len(props) |-> configLine(c, props[i])], <<"\n">>)

\* a resolution that takes every token as given, a known stage too
stagePathAsGiven(dir, token) == token

\* the path absolutizePiGenStages resolves for one token
stagePath(dir, token) == IF token \in PiGenStages THEN Under(dir, token) ELSE token

\* absolutizePiGenStages: [ok, stageList, log]; the loop stops at the first
\* token that fs.realpath rejects
RECURSIVE absolutizeFrom(_, _, _, _, _)
absolutizeFrom(fs, dir, stages, i, acc) ==
  IF i > Len(stages) THEN [ok |-> TRUE, stages |-> acc.stages, log |-> acc.log]
  ELSE LET p == stagePath(dir, stages[i])
           r == realpath(fs, p)
           log == Append(acc.log, Event("realpath", p))
       IN IF r = NoPath THEN [ok |-> FALSE, stages |-> acc.stages, log |-> log]
          ELSE absolutizeFrom(fs, dir, stages, i + 1,
                              [stages |-> Append(acc.stages, r), log |-> log])

absolutizePiGenStages(fs, c, dir) ==
  IF "stageList" \notin DOMAIN c
  THEN [ok |-> FALSE, config |-> c, log |-> << >>]
  ELSE LET r == absolutizeFrom(fs, dir, split(c.stageList, " "), 1,
                               [stages |-> << >>, log |-> << >>])
       IN [ok |-> r.ok,
           config |-> IF r.ok THEN [c EXCEPT !.stageList = join(r.stages, <<" ">>)] ELSE c,
           log |-> r.log]

\* fs.writeFile succeeds when the file's directory exists
canWriteFile(fs, file) == stat(fs, dirname(file)) = "dir"


---------------------------------------------------------------------------
(* validateConfig *)

ErrImageName == "image-name must not be empty"
ErrRelease == "release must be one of [bullseye, jessie, stretch, buster, testing]"
ErrCompression == "compression must be one of [none, zip, gz, xz]"
ErrCompressionLevel == "compression-level must be between 0 and 9"
ErrLocale == "locale is not included in the list of supported locales"
ErrHostname == "hostname must not be empty"
ErrKeymap == "keyboard-keymap must not be empty"
ErrLayout == "keyboard-layout must not be empty"
ErrTimezone == "timezone is not included in output of timedatectl list-timezones"
ErrUsername == "username must not be empty"
ErrWpaPassword == "wpa-password must be between 8 and 63 characters (or unset)"
ErrStageListEmpty == "stage-list must not be empty"
ErrStageList == "stage-list must contain valid pi-gen stage names stage[0-5] and/or valid directories"
\* io.which or exec.getExecOutput rejected
ErrQuery == "environment query failed"

Releases == {<<"b", "u", "l", "l", "s", "e", "y", "e">>, <<"j", "e", "s", "s", "i", "e">>, <<"s", "t", "r", "e", "t", "c", "h">>, <<"b", "u", "s", "t", "e", "r">>, <<"t", "e", "s", "t", "i", "n", "g">>}
Compressions == {<<"n", "o", "n", "e">>, <<"z", "i", "p">>, <<"g", "z">>, <<"x", "z">>}

\* what `cut -d ' ' -f1 /usr/share/i18n/SUPPORTED` prints on this host
LocaleStdout == <<"e", "n", "_", "G", "B", ".", "U", "T", "F", "-", "8", "\n", "d", "e", "_", "D", "E", ".", "U", "T", "F", "-", "8", "\n">>
\* what `timedatectl list-timezones` prints on this host
TimezoneStdout == <<"E", "u", "r", "o", "p", "e", "/", "L", "o", "n", "d", "o", "n", "\n", "E", "u", "r", "o", "p", "e", "/", "B", "e", "r", "l", "i", "n", "\n">>

\* the checks before the first await with the hostname check moved up to them
staticErrorWithHostname(c) ==
  IF ~Truthy(Prop(c, "imgName")) THEN ErrImageName
  ELSE IF "release" \notin DOMAIN c \/ toLowerCase(c.release) \notin Releases
       THEN ErrRelease
  ELSE IF "deployCompression" \notin DOMAIN c
            \/ toLowerCase(c.deployCompression) \notin Compressions
       THEN ErrCompression
  ELSE IF ~(Len(Prop(c, "compressionLevel")) = 1 /\ c.compressionLevel[1] \in Digits)
       THEN ErrCompressionLevel
  ELSE IF ~Truthy(Prop(c, "targetHostname")) THEN ErrHostname
  ELSE ""

\* the checks before the first await: lines 63-87
staticError(c) ==
  IF ~Truthy(Prop(c, "imgName")) THEN ErrImageName
  ELSE IF "release" \notin DOMAIN c \/ toLowerCase(c.release) \notin Releases
       THEN ErrRelease
  ELSE IF "deployCompression" \notin DOMAIN c
            \/ toLowerCase(c.deployCompression) \notin Compressions
       THEN ErrCompression
  ELSE IF ~(Len(Prop(c, "compressionLevel")) = 1 /\ c.compressionLevel[1] \in Digits)
       THEN ErrCompressionLevel
  ELSE ""

\* the checks after the locale query: lines 97-113
localeError(c, stdout) ==
  IF Prop(c, "localeDefault") \notin Range(split(stdout, "\n")) THEN ErrLocale
  ELSE IF ~Truthy(Prop(c, "targetHostname")) THEN ErrHostname
  ELSE IF ~Truthy(Prop(c, "keyboardKeymap")) THEN ErrKeymap
  ELSE IF ~Truthy(Prop(c, "keyboardLayout")) THEN ErrLayout
  ELSE ""

\* a length check with both limits off by one
wpaPasswordInvalidOffByOne(c) ==
  LET pw == Prop(c, "wpaPassword")
  IN Truthy(pw) /\ (Len(pw) <= 8 \/ Len(pw) >= 63)

\* lines 128-131
wpaPasswordInvalid(c) ==
  LET pw == Prop(c, "wpaPassword")
  IN Truthy(pw) /\ (Len(pw) < 8 \/ Len(pw) > 63)

\* the checks after the timezone query: lines 118-139
timezoneError(c, stdout) ==
  IF Prop(c, "timezoneDefault") \notin Range(split(stdout, "\n")) THEN ErrTimezone
  ELSE IF ~Truthy(Prop(c, "firstUserName")) THEN ErrUsername
  ELSE IF wpaPasswordInvalid(c) THEN ErrWpaPassword
  ELSE IF ~Truthy(Prop(c, "stageList")) THEN ErrStageListEmpty
  ELSE ""

\* `!stat.isDirectory` (line 145): isDirectory is not called; it is the method
\* itself, a function, which is truthy whatever the path is
notIsDirectory(kind) == FALSE

\* the body of the loop for one token that is no known stage: TRUE when it throws
stageTokenThrows(fs, token) ==
  LET kind == stat(fs, token)
  IN kind = "enoent" \/ notIsDirectory(kind)

\* writeToFile(config, piGenDirectory, file): [ok, config, fs, content, log]
writeToFile(fs, c, dir, file) ==
  LET a == absolutizePiGenStages(fs, c, dir)
      content == configContent(a.config)
      written == a.ok /\ canWriteFile(fs, file)
  IN [ok |-> written,
      config |-> a.config,
      content |-> content,
      fs |-> IF written THEN (file :> File) @@ fs ELSE fs,
      log |-> IF a.ok THEN Append(a.log, Event("writeFile", file)) ELSE a.log]

---------------------------------------------------------------------------
(* pi-gen.ts: class PiGen *)

BuildScript == <<".", "/", "b", "u", "i", "l", "d", "-", "d", "o", "c", "k", "e", "r", ".", "s", "h">>

\* a validation that looks for the required files only
validatePigenDirectoryFilesOnly(fs, dir) ==
  LET dirStat == stat(fs, dir)
      piGenDirContent == readdirSync(fs, dir)
      existingFiles == {e.name : e \in {x \in piGenDirContent : x.kind = "file"}}
  IN IF dirStat = "enoent" THEN "enoent"
     ELSE IF dirStat # "dir" THEN "invalid"
     ELSE IF ~(\A file \in RequiredFiles : file \in existingFiles) THEN "invalid"
     ELSE "valid"

\* validatePigenDirectory: "valid", "invalid" (it returns false) or "enoent"
\* (fs.statSync throws)
validatePigenDirectory(fs, dir) ==
  LET dirStat == stat(fs, dir)
      piGenDirContent == readdirSync(fs, dir)
      existingFiles == {e.name : e \in {x \in piGenDirContent : x.kind = "file"}}
      existingDirectories == {e.name : e \in {x \in piGenDirContent : x.kind = "dir"}}
  IN IF dirStat = "enoent" THEN "enoent"
     ELSE IF dirStat # "dir" THEN "invalid"
     ELSE IF ~(\A file \in RequiredFiles : file \in existingFiles) THEN "invalid"
     ELSE IF ~(\A d \in PiGenStages : d \in existingDirectories) THEN "invalid"
     ELSE "valid"

\* what validatePigenDirectory reads
validateLog(fs, dir) ==
  <<Event("statSync", dir)>>
    \o (IF stat(fs, dir) = "dir" THEN <<Event("readdirSync", dir)>> ELSE << >>)

\* configureStagesImageExport: [rm, warn], the markers io.rmRF is started for
\* (and not awaited) and the custom stages a warning is given for
configureStagesImageExport(fs, stageList) ==
  LET stages == Range(splitWhitespace(stageList))
  IN [rm |-> {Under(d, ExportMarker) : d \in {x \in stages : basename(x) \in PiGenStages}},
      warn |-> {d \in stages : /\ basename(d) \notin PiGenStages
                                /\ ~existsSync(fs, Under(d, ExportMarker))}]

\* getStagesAsDockerMounts: [ok, opts]; fs.realpathSync throws on a path that
\* does not exist
getStagesAsDockerMounts(fs, stageList) ==
  LET stages == splitWhitespace(stageList)
      real == [i \in 1..Len(stages) |-> realpathSync(fs, stages[i])]
  IN [ok |-> \A i \in 1..Len(real) : real[i] # NoPath,
      opts |-> join([i \in 1..Len(real) |-> <<"-", "v", " ">> \o real[i] \o <<":">> \o real[i]], <<" ">>)]

\* piGenBuildLogPattern = /^\s*\[(?:\d{2}:?){3}\].*/gm matched at position p
\* (counted from 0): the position the match ends at, -1 if there is none there
matchAt(line, p) ==
  LET n == Len(line)
      atLineStart == p = 0 \/ line[p] \in LineTerminators
      \* \s*: the first character from p on that is no whitespace
      bracket == CHOOSE j \in (p + 1)..(n + 1) :
                   /\ \A k \in (p + 1)..(j - 1) : line[k] \in Whitespace
                   /\ j = n + 1 \/ line[j] \notin Whitespace
      \* \d{2}:? from index i: the index after it, 0 if it does not match
      group(i) == IF i = 0 \/ i + 1 > n THEN 0
                  ELSE IF line[i] \notin Digits \/ line[i + 1] \notin Digits THEN 0
                  ELSE IF i + 2 <= n /\ line[i + 2] = ":" THEN i + 3
                  ELSE i + 2
      closing == group(group(group(bracket + 1)))
      \* .*: up to the next line terminator
      last == CHOOSE j \in closing..n :
                /\ \A k \in (closing + 1)..j : line[k] \notin LineTerminators
                /\ j = n \/ line[j + 1] \in LineTerminators
  IN IF ~atLineStart \/ bracket > n THEN -1
     ELSE IF line[bracket] # "[" THEN -1
     ELSE IF closing = 0 \/ closing > n THEN -1
     ELSE IF line[closing] # "]" THEN -1
     ELSE last

\* RegExp.prototype.test of a regular expression with the g flag: the search
\* starts at lastIndex, which a match sets to its end and a failure to 0
regexTest(line, from) ==
  LET found == {p \in from..Len(line) : matchAt(line, p) # -1}
  IN IF from > Len(line) \/ found = {} THEN [matched |-> FALSE, lastIndex |-> 0]
     ELSE [matched |-> TRUE,
           lastIndex |-> matchAt(line, CHOOSE p \in found : \A q \in found : p <= q)]

\* logOutput(line, verbose, stream): [shown, lastIndex]; with verbose set the
\* pattern is not tested
logOutput(line, verb, from) ==
  IF verb THEN [shown |-> TRUE, lastIndex |-> from]
  ELSE LET t == regexTest(line, from)
       IN [shown |-> t.matched, lastIndex |-> t.lastIndex]

\* the options build() passes to exec.getExecOutput set no ignoreReturnCode,
\* which @actions/exec takes as false
IgnoreReturnCode == FALSE

\* exec.getExecOutput when the process has exited: it rejects on a non-zero
\* exit code unless ignoreReturnCode is set, and resolves with the exit code
\* and the captured output otherwise
getExecOutput(code, stdout, stderr) ==
  IF code # 0 /\ ~IgnoreReturnCode
  THEN [kind |-> "threw", exitCode |-> code, stdout |-> << >>, stderr |-> << >>]
  ELSE [kind |-> "returned", exitCode |-> code, stdout |-> stdout, stderr |-> stderr]

\* the lines of one stream among those delivered
Captured(stream) ==
  LET of == SelectSeq(delivered, LAMBDA d : d.stream = stream)
  IN [i \in 1..Len(of) |-> of[i].line]

---------------------------------------------------------------------------
(* The inputs *)

\* the stage lists tried
StageLists ==
  {<<"s", "t", "a", "g", "e", "0">>, <<"s", "t", "a", "g", "e", "0", " ", "s", "t", "a", "g", "e", "1">>, <<"s", "t", "a", "g", "e", "0", " ", "c", "u", "s", "t", "o", "m">>, <<"l", "n", " ", "s", "t", "a", "g", "e", "1">>, <<"s", "t", "a", "g", "e", "0", " ", " ", "s", "t", "a", "g", "e", "1">>,
   <<"s", "t", "a", "g", "e", "0", "\t", "s", "t", "a", "g", "e", "1">>, <<"a", "f", "i", "l", "e">>, <<"n", "o", "p", "e">>, <<>>, <<"s", "t", "a", "g", "e", "*">>}

\* the values the caller may set a field to
InputValues ==
  [imgName |-> {<<>>},
   release |-> {<<"B", "u", "l", "l", "s", "e", "y", "e">>, <<"t", "r", "i", "x", "i", "e">>},
   deployCompression |-> {<<"X", "Z">>, <<"r", "a", "r">>},
   compressionLevel |-> {<<"1", "0">>},
   localeDefault |-> {<<"x", "x", "_", "X", "X">>},
   targetHostname |-> {<<>>},
   keyboardKeymap |-> {<<>>},
   keyboardLayout |-> {<<>>},
   timezoneDefault |-> {<<"M", "a", "r", "s", "/", "B", "a", "s", "e">>},
   firstUserName |-> {<<>>},
   firstUserPass |-> {<<"p", "w">>},
   wpaPassword |-> {Repeat("x", n) : n \in 0..MaxPwLen},
   pubkeySshFirstUser |-> {<<"k", "1", "\n", "k", "2">>},
   stageList |-> StageLists,
   useQcow2 |-> {<<>>}]

Idle ==
  /\ wpc = "idle" /\ vpc = "idle" /\ piGen = "none" /\ bpc = "idle"

\* what no operation of pi-gen-config.ts touches
BuildVars ==
  <<piGen, bpc, verbose, pendingRm, warnings, dockerOpts, lastIndex, delivered, sink,
    exitCode, result>>

ValidateVars == <<vpc, vIdx, vError>>

InitWith(c, fs) ==
  /\ config = c /\ configIn = c /\ overrides = 0
  /\ fsys = fs
  /\ cfgFile = [written |-> FALSE, content |-> << >>]
  /\ wpc = "idle"
  /\ vpc = "idle" /\ vIdx = 1 /\ vError = ""
  /\ ioLog = << >>
  /\ piGen = "none" /\ bpc = "idle" /\ verbose = FALSE
  /\ pendingRm = {} /\ warnings = {} /\ dockerOpts = << >>
  /\ lastIndex = 0 /\ delivered = << >> /\ sink = << >>
  /\ exitCode = -1
  /\ result = [kind |-> "none", exitCode |-> -1, stdout |-> << >>, stderr |-> << >>]

\* the values tried where the length of the Wi-Fi password plays no part
InputValuesOnePassword == [InputValues EXCEPT !.wpaPassword = {Repeat("x", 8)}]

\* the caller sets one input on top of DEFAULT_CONFIG
SetInput(values) ==
  /\ Idle /\ overrides < MaxOverrides
  /\ \E f \in DOMAIN values : \E v \in values[f] :
       /\ Prop(config, f) # v \/ f \notin DOMAIN config
       /\ config' = (f :> v) @@ config
  /\ configIn' = config'
  /\ overrides' = overrides + 1
  /\ UNCHANGED <<fsys, cfgFile, wpc, ioLog>>
  /\ UNCHANGED ValidateVars /\ UNCHANGED BuildVars

\* the caller calls writeToFile(config, piGenDirectory, file)
WriteToFile ==
  /\ Idle
  /\ LET w == writeToFile(fsys, config, PiGenDirectory, ConfigFile)
     IN /\ configIn' = config
        /\ config' = w.config
        /\ fsys' = w.fs
        /\ cfgFile' = IF w.ok THEN [written |-> TRUE, content |-> w.content] ELSE cfgFile
        /\ ioLog' = ioLog \o w.log
        /\ wpc' = IF w.ok THEN "resolved" ELSE "rejected"
  /\ UNCHANGED overrides
  /\ UNCHANGED ValidateVars /\ UNCHANGED BuildVars

\* validateConfig(config), up to its first await
ValidateStart ==
  /\ Idle
  /\ LET e == staticError(config)
     IN /\ vError' = e
        /\ vpc' = IF e = "" THEN "locale" ELSE "failed"
  /\ UNCHANGED <<config, configIn, overrides, fsys, cfgFile, wpc, vIdx, ioLog>>
  /\ UNCHANGED BuildVars

\* io.which('cut') and the locale query come back
ValidateLocale ==
  /\ vpc = "locale"
  /\ \E outcome \in {"ok", "which rejects", "exec rejects"} :
       LET e == IF outcome = "ok" THEN localeError(config, LocaleStdout) ELSE ErrQuery
       IN /\ ioLog' = ioLog \o <<Event("which", <<"c", "u", "t">>)>>
                        \o (IF outcome = "which rejects" THEN << >>
                            ELSE <<Event("exec", <<"c", "u", "t">>)>>)
          /\ vError' = e
          /\ vpc' = IF e = "" THEN "timezone" ELSE "failed"
  /\ UNCHANGED <<config, configIn, overrides, fsys, cfgFile, wpc, vIdx>>
  /\ UNCHANGED BuildVars

\* the timezone query comes back
ValidateTimezone ==
  /\ vpc = "timezone"
  /\ \E outcome \in {"ok", "exec rejects"} :
       LET e == IF outcome = "ok" THEN timezoneError(config, TimezoneStdout) ELSE ErrQuery
       IN /\ ioLog' = Append(ioLog, Event("exec", <<"t", "i", "m", "e", "d", "a", "t", "e", "c", "t", "l">>))
          /\ vError' = e
          /\ vpc' = IF e = "" THEN "stages" ELSE "failed"
  /\ vIdx' = 1
  /\ UNCHANGED <<config, configIn, overrides, fsys, cfgFile, wpc>>
  /\ UNCHANGED BuildVars

\* one turn of the loop over config.stageList.split(' ')
ValidateStage ==
  /\ vpc = "stages"
  /\ LET tokens == split(config.stageList, " ")
         token == tokens[vIdx]
         known == token \in PiGenStages
         throws == ~known /\ stageTokenThrows(fsys, token)
     IN /\ ioLog' = IF known THEN ioLog ELSE Append(ioLog, Event("stat", token))
        /\ vError' = IF throws THEN ErrStageList ELSE ""
        /\ vpc' = IF throws THEN "failed"
                  ELSE IF vIdx = Len(tokens) THEN "passed" ELSE "stages"
        /\ vIdx' = vIdx + 1
  /\ UNCHANGED <<config, configIn, overrides, fsys, cfgFile, wpc>>
  /\ UNCHANGED BuildVars

InitValidate == InitWith(DEFAULT_CONFIG, ValidTree)

NextValidate ==
  \/ SetInput(InputValues)
  \/ ValidateStart \/ ValidateLocale \/ ValidateTimezone \/ ValidateStage

\* the caller of validateConfig
SpecValidate == InitValidate /\ [][NextValidate]_vars

\* new PiGen(piGenDirectory, config)
Construct ==
  /\ Idle
  /\ LET v == validatePigenDirectory(fsys, PiGenDirectory)
     IN /\ piGen' = IF v = "valid" THEN "constructed" ELSE "threw"
        /\ ioLog' = ioLog \o validateLog(fsys, PiGenDirectory)
                      \o (IF v = "valid" THEN <<Event("realpathSync", PiGenDirectory)>>
                          ELSE << >>)
  /\ UNCHANGED <<config, configIn, overrides, fsys, cfgFile, wpc>>
  /\ UNCHANGED ValidateVars
  /\ UNCHANGED <<bpc, verbose, pendingRm, warnings, dockerOpts, lastIndex, delivered,
                 sink, exitCode, result>>

\* build(verbose) up to the call of exec.getExecOutput: the config file is
\* written, the removals of the export markers are started, the mounts computed
BuildPrepare ==
  /\ piGen = "constructed" /\ bpc = "idle"
  /\ \E verb \in BOOLEAN :
       LET w == writeToFile(fsys, config, PiGenDirectory, ConfigFile)
           x == configureStagesImageExport(w.fs, w.config.stageList)
           m == getStagesAsDockerMounts(w.fs, w.config.stageList)
           ok == w.ok /\ m.ok
       IN /\ verbose' = verb
          /\ configIn' = config
          /\ config' = w.config
          /\ fsys' = w.fs
          /\ cfgFile' = IF w.ok THEN [written |-> TRUE, content |-> w.content] ELSE cfgFile
          /\ wpc' = IF w.ok THEN "resolved" ELSE "rejected"
          /\ pendingRm' = IF w.ok THEN x.rm ELSE {}
          /\ warnings' = IF w.ok THEN x.warn ELSE {}
          /\ dockerOpts' = IF ok THEN m.opts ELSE << >>
          /\ ioLog' = ioLog \o w.log
          /\ bpc' = IF ok THEN "prepared" ELSE "threw"
          /\ result' = IF ok THEN result
                       ELSE [kind |-> "threw", exitCode |-> -1,
                             stdout |-> << >>, stderr |-> << >>]
  /\ UNCHANGED <<overrides, piGen, lastIndex, delivered, sink, exitCode>>
  /\ UNCHANGED ValidateVars

\* exec.getExecOutput starts ./build-docker.sh
ExecSpawn ==
  /\ bpc = "prepared"
  /\ bpc' = "running"
  /\ ioLog' = Append(ioLog, Event("exec", BuildScript))
  /\ UNCHANGED <<config, configIn, overrides, fsys, cfgFile, wpc, piGen, verbose,
                 pendingRm, warnings, dockerOpts, lastIndex, delivered, sink, exitCode,
                 result>>
  /\ UNCHANGED ValidateVars

\* one io.rmRF that configureStagesImageExport started completes
RmRFDone ==
  /\ \E p \in pendingRm :
       /\ pendingRm' = pendingRm \ {p}
       /\ fsys' = [q \in DOMAIN fsys \ {p} |-> fsys[q]]
       /\ ioLog' = Append(ioLog, Event("rmRF", p))
  /\ UNCHANGED <<config, configIn, overrides, cfgFile, wpc, piGen, bpc, verbose,
                 warnings, dockerOpts, lastIndex, delivered, sink, exitCode, result>>
  /\ UNCHANGED ValidateVars

\* the lines the build script may write
Lines == {<<"[", "0", "0", ":", "0", "0", ":", "0", "0", "]", " ", "a">>, <<" ", "[", "1", "2", "1", "2", "1", "2", "]", " ", "b", "b">>, <<"m", "a", "k", "e">>, <<"x", " ", "[", "0", "0", ":", "0", "0", ":", "0", "0", "]">>}

\* a listener is called with one line of the subprocess's output
Deliver(stream, channel) ==
  /\ bpc = "running" /\ Len(delivered) < MaxLines
  /\ \E line \in Lines :
       LET o == logOutput(line, verbose, lastIndex)
       IN /\ delivered' = Append(delivered, [stream |-> stream, line |-> line])
          /\ lastIndex' = o.lastIndex
          /\ sink' = IF o.shown
                     THEN Append(sink, [channel |-> channel, line |-> line])
                     ELSE sink
  /\ UNCHANGED <<config, configIn, overrides, fsys, cfgFile, wpc, ioLog, piGen, bpc,
                 verbose, pendingRm, warnings, dockerOpts, exitCode, result>>
  /\ UNCHANGED ValidateVars

\* listeners.stdline
StdLine == Deliver("stdout", "info")

\* listeners.errline
ErrLine == Deliver("stderr", "error")

\* ./build-docker.sh exits and exec.getExecOutput settles
ExecClose ==
  /\ bpc = "running"
  /\ \E code \in {0, 1, 2} :
       LET r == getExecOutput(code, Captured("stdout"), Captured("stderr"))
       IN /\ exitCode' = code
          /\ result' = r
          /\ bpc' = IF r.kind = "returned" THEN "returned" ELSE "threw"
  /\ UNCHANGED <<config, configIn, overrides, fsys, cfgFile, wpc, ioLog, piGen, verbose,
                 pendingRm, warnings, dockerOpts, lastIndex, delivered, sink>>
  /\ UNCHANGED ValidateVars

Entries == RequiredFiles \cup PiGenStages

\* the defects of the pi-gen directory tried: at most MaxDefects of its
\* required entries are missing or of the wrong kind
Defects ==
  UNION {[D -> {"absent", "wrongkind"}] :
           D \in {X \in SUBSET Entries : Cardinality(X) <= MaxDefects}}

MarkerSets == {{<<"/", "w", "/", "p", "g", "/", "s", "t", "a", "g", "e", "1">>} \cup M : M \in SUBSET {<<"/", "w", "/", "p", "g", "/", "s", "t", "a", "g", "e", "0">>, <<"/", "w", "/", "c", "u", "s", "t", "o", "m">>}}

Trees ==
  {Tree("dir", d, m) : d \in Defects, m \in MarkerSets}
    \cup {Tree("file", NoDefects, {}), Tree("absent", NoDefects, {})}

InitBuild ==
  \E sl \in StageLists, t \in Trees :
    InitWith([DEFAULT_CONFIG EXCEPT !.stageList = sl], t)

NextBuild ==
  Construct \/ BuildPrepare \/ ExecSpawn \/ RmRFDone \/ StdLine \/ ErrLine \/ ExecClose

\* the caller of class PiGen
SpecBuild == InitBuild /\ [][NextBuild]_vars

InitConfig == InitWith(DEFAULT_CONFIG, ValidTree)

NextConfig == SetInput(InputValuesOnePassword) \/ WriteToFile

\* the caller of writeToFile
SpecConfig == InitConfig /\ [][NextConfig]_vars


---------------------------------------------------------------------------
(* The configuration file, read back *)

\* the upper-snake-case key of every field, written out
ExpectedKey ==
  [imgName |-> <<"I", "M", "G", "_", "N", "A", "M", "E">>, release |-> <<"R", "E", "L", "E", "A", "S", "E">>,
   deployCompression |-> <<"D", "E", "P", "L", "O", "Y", "_", "C", "O", "M", "P", "R", "E", "S", "S", "I", "O", "N">>, compressionLevel |-> <<"C", "O", "M", "P", "R", "E", "S", "S", "I", "O", "N", "_", "L", "E", "V", "E", "L">>,
   localeDefault |-> <<"L", "O", "C", "A", "L", "E", "_", "D", "E", "F", "A", "U", "L", "T">>, targetHostname |-> <<"T", "A", "R", "G", "E", "T", "_", "H", "O", "S", "T", "N", "A", "M", "E">>,
   keyboardKeymap |-> <<"K", "E", "Y", "B", "O", "A", "R", "D", "_", "K", "E", "Y", "M", "A", "P">>, keyboardLayout |-> <<"K", "E", "Y", "B", "O", "A", "R", "D", "_", "L", "A", "Y", "O", "U", "T">>,
   timezoneDefault |-> <<"T", "I", "M", "E", "Z", "O", "N", "E", "_", "D", "E", "F", "A", "U", "L", "T">>, firstUserName |-> <<"F", "I", "R", "S", "T", "_", "U", "S", "E", "R", "_", "N", "A", "M", "E">>,
   firstUserPass |-> <<"F", "I", "R", "S", "T", "_", "U", "S", "E", "R", "_", "P", "A", "S", "S">>, wpaEssid |-> <<"W", "P", "A", "_", "E", "S", "S", "I", "D">>,
   wpaPassword |-> <<"W", "P", "A", "_", "P", "A", "S", "S", "W", "O", "R", "D">>, wpaCountry |-> <<"W", "P", "A", "_", "C", "O", "U", "N", "T", "R", "Y">>,
   enableSsh |-> <<"E", "N", "A", "B", "L", "E", "_", "S", "S", "H">>, pubkeySshFirstUser |-> <<"P", "U", "B", "K", "E", "Y", "_", "S", "S", "H", "_", "F", "I", "R", "S", "T", "_", "U", "S", "E", "R">>,
   pubkeyOnlySsh |-> <<"P", "U", "B", "K", "E", "Y", "_", "O", "N", "L", "Y", "_", "S", "S", "H">>, stageList |-> <<"S", "T", "A", "G", "E", "_", "L", "I", "S", "T">>,
   useQcow2 |-> <<"U", "S", "E", "_", "Q", "C", "O", "W", "2">>]

NonEmptyFields(c) == {f \in DOMAIN c : c[f] # << >>}

\* the lines of the file
FileLines == IF cfgFile.content = << >> THEN << >> ELSE split(cfgFile.content, "\n")

\* the key of a line: what stands before its first "="
KeyOf(line) ==
  LET at == {i \in 1..Len(line) : line[i] = "="}
  IN IF at = {} THEN line
     ELSE SubSeq(line, 1, (CHOOSE i \in at : \A j \in at : i <= j) - 1)

OneLinePerNonEmptyField ==
  /\ Len(FileLines) = Cardinality(NonEmptyFields(config))
  /\ {KeyOf(FileLines[i]) : i \in 1..Len(FileLines)}
       = {ExpectedKey[f] : f \in NonEmptyFields(config)}
  /\ \A f \in NonEmptyFields(config) :
       Cardinality({i \in 1..Len(FileLines) :
                      FileLines[i] = ExpectedKey[f] \o <<"=", "\"">> \o config[f] \o <<"\"">>}) = 1

HasLineBreak(v) == \E i \in 1..Len(v) : v[i] = "\n"

\* C1 as stated: whenever writeToFile has written the file, the file has exactly
\* one line KEY="value" for each non-empty field of the configuration and no
\* other line, KEY being the field's name in upper snake case, so that the keys
\* read back are the non-empty fields
C1_AsStated == wpc = "resolved" => OneLinePerNonEmptyField

\* C1, amended: the same for every configuration none of whose values contains
\* a line break
C1_OneLinePerField ==
  (wpc = "resolved" /\ \A f \in DOMAIN config : ~HasLineBreak(config[f]))
    => OneLinePerNonEmptyField

\* a file written from a configuration with an empty image name: it has the
\* line of firstUserName and no line of imgName
C1_Witness ==
  /\ wpc = "resolved"
  /\ config.imgName = << >>
  /\ \E i \in 1..Len(FileLines) : FileLines[i] = <<"F", "I", "R", "S", "T", "_", "U", "S", "E", "R", "_", "N", "A", "M", "E", "=", "\"", "p", "i", "\"">>
  /\ \A i \in 1..Len(FileLines) : KeyOf(FileLines[i]) # <<"I", "M", "G", "_", "N", "A", "M", "E">>

\* C9: stage absolutization maps the stage list token by token, a known stage
\* identifier to the canonical path of <piGenDirectory>/<identifier>, any other
\* token to the canonical path of the token, keeps the number and the order of
\* the tokens, stores the paths joined by single spaces in config.stageList
\* and leaves every other field as it was
C9_Absolutized ==
  wpc = "resolved" =>
    LET tokens == split(configIn.stageList, " ")
        paths == [i \in 1..Len(tokens) |->
                    IF tokens[i] \in PiGenStages
                    THEN realpath(fsys, PiGenDirectory \o <<"/">> \o tokens[i])
                    ELSE realpath(fsys, tokens[i])]
    IN /\ config.stageList = join(paths, <<" ">>)
       /\ \A i \in 1..Len(tokens) : paths[i] # NoPath /\ Head(paths[i]) = "/"
       /\ DOMAIN config = DOMAIN configIn
       /\ \A f \in DOMAIN config \ {"stageList"} : config[f] = configIn[f]

\* a known stage and a symbolic link to a custom stage, resolved in order
C9_Witness ==
  /\ wpc = "resolved"
  /\ configIn.stageList = <<"l", "n", " ", "s", "t", "a", "g", "e", "1">>
  /\ config.stageList = <<"/", "w", "/", "c", "u", "s", "t", "o", "m", " ", "/", "w", "/", "p", "g", "/", "s", "t", "a", "g", "e", "1">>


---------------------------------------------------------------------------
(* validateConfig: the stage list, the order of the checks, the password *)

Failed(e) == vpc = "failed" /\ vError = e

\* a token validateConfig is to turn down: no known stage identifier and no
\* existing directory
BadToken(token) == token \notin PiGenStages /\ stat(fsys, token) # "dir"

\* C2 as stated: validateConfig accepts a stage list only if every token is a
\* known stage identifier or a path that exists and is a directory
C2_AsStated ==
  vpc = "passed" => \A token \in Range(split(config.stageList, " ")) : ~BadToken(token)

\* C10 as stated: a stage list whose whitespace-delimited tokens are all valid
\* is not turned down by the stage-list check, whatever run of whitespace
\* separates the tokens
C10_AsStated ==
  Failed(ErrStageList)
    => \E token \in Range(splitWhitespace(config.stageList)) : BadToken(token)

EarlyErrors == {ErrImageName, ErrRelease, ErrCompression, ErrCompressionLevel}
AfterLocaleQuery == {ErrLocale, ErrHostname, ErrKeymap, ErrLayout}
AfterTimezoneQuery == {ErrTimezone, ErrUsername, ErrWpaPassword, ErrStageListEmpty}
FieldErrors == EarlyErrors \cup AfterLocaleQuery \cup AfterTimezoneQuery \cup {ErrStageList}

LocaleQueryLog == <<Event("which", <<"c", "u", "t">>), Event("exec", <<"c", "u", "t">>)>>
QueriesLog == Append(LocaleQueryLog, Event("exec", <<"t", "i", "m", "e", "d", "a", "t", "e", "c", "t", "l">>))

\* C5 as stated: when a field check of validateConfig fails, no command has
\* been executed and no file has been accessed
C5_AsStated == (vpc = "failed" /\ vError \in FieldErrors) => ioLog = << >>

\* C5, amended: a failing check of image name, release, compression or
\* compression level is raised before any subprocess call or file access; a
\* failing check of locale, hostname, keyboard keymap or layout after the locale
\* query (which, cut) and nothing else; a failing check of timezone, user
\* name, Wi-Fi password or of the stage list being empty after the timezone
\* query as well; a stage-list token is turned down after fs.stat of it and of
\* the unknown tokens before it; and no failure comes after a file write or
\* the build script
C5_FailsAfterItsQueries ==
  vpc = "failed" =>
    /\ vError \in EarlyErrors => ioLog = << >>
    /\ vError \in AfterLocaleQuery => ioLog = LocaleQueryLog
    /\ vError \in AfterTimezoneQuery => ioLog = QueriesLog
    /\ vError = ErrStageList =>
         /\ Len(ioLog) > 3
         /\ SubSeq(ioLog, 1, 3) = QueriesLog
         /\ \A i \in 4..Len(ioLog) : ioLog[i].op = "stat"
         /\ BadToken(ioLog[Len(ioLog)].arg)
    /\ \A i \in 1..Len(ioLog) : ioLog[i].op \in {"which", "exec", "stat"}
    /\ \A i \in 1..Len(ioLog) : ioLog[i].arg # BuildScript
    /\ ~cfgFile.written

\* an empty hostname is reported when the locale query has run
C5_Witness == Failed(ErrHostname) /\ ioLog = LocaleQueryLog

WpaPasswordLength == Len(Prop(config, "wpaPassword"))

\* C7: validateConfig turns the Wi-Fi password down exactly when it is present
\* and shorter than 8 or longer than 63 characters: a run that fails on it has
\* a length in 1..7 or of 64 and more, a run that gets past the check has no
\* password or a length in 8..63
C7_WpaPasswordLength ==
  /\ Failed(ErrWpaPassword) => (WpaPasswordLength \in 1..7 \/ WpaPasswordLength >= 64)
  /\ (vpc \in {"stages", "passed"} \/ Failed(ErrStageListEmpty) \/ Failed(ErrStageList))
       => (WpaPasswordLength = 0 \/ WpaPasswordLength \in 8..63)

\* a password of 63 characters got past the check
C7_Witness == vpc \in {"stages", "passed"} /\ WpaPasswordLength = 63

---------------------------------------------------------------------------
(* class PiGen: construction, the markers, the output, the exit code *)

KindAt(path) == IF path \in DOMAIN fsys THEN fsys[path].kind ELSE "enoent"

\* the shape a pi-gen directory is to have
DirShapeOK ==
  /\ KindAt(PgAbs) = "dir"
  /\ KindAt(<<"/", "w", "/", "p", "g", "/", "b", "u", "i", "l", "d", "-", "d", "o", "c", "k", "e", "r", ".", "s", "h">>) = "file"
  /\ KindAt(<<"/", "w", "/", "p", "g", "/", "D", "o", "c", "k", "e", "r", "f", "i", "l", "e">>) = "file"
  /\ \A n \in {<<"0">>, <<"1">>, <<"2">>, <<"3">>, <<"4">>, <<"5">>} : KindAt(<<"/", "w", "/", "p", "g", "/", "s", "t", "a", "g", "e">> \o n) = "dir"

\* C6: a PiGen is constructed only on a directory that holds build-docker.sh,
\* Dockerfile and one directory per known stage; on any other the constructor
\* throws, and no validation, no write of the config file and no subprocess
\* call has happened or happens
C6_ConstructionValidates ==
  /\ piGen = "constructed" => DirShapeOK
  /\ (piGen # "none" /\ ~DirShapeOK) =>
       /\ piGen = "threw"
       /\ bpc = "idle" /\ wpc = "idle" /\ vpc = "idle"
       /\ ~cfgFile.written /\ pendingRm = {}
       /\ \A i \in 1..Len(ioLog) : ioLog[i].op \in {"statSync", "readdirSync"}

\* the constructor threw on a directory that lacks the directory stage3 only
C6_Witness ==
  /\ piGen = "threw"
  /\ KindAt(<<"/", "w", "/", "p", "g", "/", "s", "t", "a", "g", "e", "3">>) = "enoent"
  /\ KindAt(PgAbs) = "dir"
  /\ KindAt(<<"/", "w", "/", "p", "g", "/", "b", "u", "i", "l", "d", "-", "d", "o", "c", "k", "e", "r", ".", "s", "h">>) = "file"
  /\ KindAt(<<"/", "w", "/", "p", "g", "/", "D", "o", "c", "k", "e", "r", "f", "i", "l", "e">>) = "file"
  /\ \A n \in {<<"0">>, <<"1">>, <<"2">>, <<"4">>, <<"5">>} : KindAt(<<"/", "w", "/", "p", "g", "/", "s", "t", "a", "g", "e">> \o n) = "dir"

ScriptStarted == \E i \in 1..Len(ioLog) : ioLog[i] = Event("exec", BuildScript)

\* C8 as stated: when build-docker.sh is started, the export marker of every
\* stage-list entry whose base name is a known stage identifier is gone
C8_AsStated ==
  ScriptStarted =>
    \A d \in Range(splitWhitespace(config.stageList)) :
      basename(d) \in PiGenStages => KindAt(Under(d, ExportMarker)) = "enoent"

\* C3 as stated: when build-docker.sh has exited with a non-zero code, build
\* has returned a result with that exit code and the captured stderr output
C3_AsStated ==
  (exitCode # -1 /\ exitCode # 0) =>
    /\ result.kind = "returned"
    /\ result.exitCode = exitCode
    /\ result.stderr = Captured("stderr")

\* the pattern matches somewhere in the line
Matches(line) == \E p \in 0..Len(line) : matchAt(line, p) # -1

Channel(stream) == IF stream = "stdout" THEN "info" ELSE "error"

\* C4 as stated: what reaches the logging sink is, in order, every delivered
\* line that matches the pattern (every line in verbose mode), on the channel
\* of its stream, whatever was delivered before it
C4_AsStated ==
  LET shown == SelectSeq(delivered, LAMBDA d : verbose \/ Matches(d.line))
  IN sink = [i \in 1..Len(shown) |->
               [channel |-> Channel(shown[i].stream), line |-> shown[i].line]]

=============================================================================
